---- MODULE Spec2Model ----
(***************************************************************************)
(* Model of imxrt-rt-gen: the LinkerScript builder (src/src/lib.rs) and    *)
(* the linker-script renderer (src/src/generate/link.rs), for W = u32.     *)
(*                                                                         *)
(* A rendered script is a sequence of lines; every line is a record whose  *)
(* field k names the writeln! of link.rs that produced it and whose other  *)
(* fields are the values interpolated into its format string.              *)
(***************************************************************************)
EXTENDS Integers, Sequences, FiniteSets, Bags, TLC

(* ------------------------------------------------------------------ *)
(* Program constants                                                   *)
(* ------------------------------------------------------------------ *)

FLASH == "FLASH"
RAM == "RAM"

\* i32::max_value()
I32Max == 2147483647

\* std::mem::align_of::<u32>()
AlignOfW == 4

\* Option::None (of lma and of linker_preamble)
None == "None"

\* The names write() requires, in the order it looks for them.
REQ_SEC_NAMES == <<"stack", "vector_table", "text", "data", "rodata", "bss">>

(* ------------------------------------------------------------------ *)
(* Bounds and input sets of the callers                                *)
(* ------------------------------------------------------------------ *)

\* A build script is explored when its declarations differ in at most
\* MaxVaried arguments from what the generate_ok scenario declares under the
\* same names.
MaxVaried == 1

\* A failing sink accepts FailAfter lines and fails the write of the next.
FailAfter == 3

RegionNames == {FLASH, RAM}
Origins == {0, 536870912}
Sizes == {128, 512}
\* A RegionID is the name of a region of this layout or of another one.
RegionIDs == {FLASH, RAM}
OptRegionIDs == {None} \cup RegionIDs
BootNames == {"fcb", "stack"}
BootSizes == {512}

VARIABLES
    regions,       \* LinkerScript.regions: name -> Region
    sections,      \* LinkerScript.sections: name -> Section
    region_calls,  \* history: the names region() inserted, in call order
    out,           \* the caller's writer handed to write()
    link_x,        \* the file link.x of the working directory
    call,          \* history: the last call, as [op, arg]; arg is the name
                   \* passed to a builder call, the sink's fate for the others
    result,        \* the value the last call returned
    pc             \* "building" | "returned" | "done" (self consumed)

vars == <<regions, sections, region_calls, out, link_x, call, result, pc>>

(* ------------------------------------------------------------------ *)
(* Results                                                             *)
(* ------------------------------------------------------------------ *)

NoResult == [tag |-> "none", val |-> None]
OkUnit == [tag |-> "Ok", val |-> None]
OkRegionID(name) == [tag |-> "OkRegionID", val |-> name]
OkSectionID(name) == [tag |-> "OkSectionID", val |-> name]
DuplicateRegion(name) == [tag |-> "DuplicateRegion", val |-> name]
DuplicateSection(name) == [tag |-> "DuplicateSection", val |-> name]
MissingSection(name) == [tag |-> "MissingSection", val |-> name]
UnknownVMA(id) == [tag |-> "UnknownVMA", val |-> id]
UnknownLMA(id) == [tag |-> "UnknownLMA", val |-> id]
IoError == [tag |-> "IoError", val |-> None]

(* ------------------------------------------------------------------ *)
(* Section constructors                                                *)
(* ------------------------------------------------------------------ *)

SizeLinker == <<"Linker">>
SizeFixed(w) == <<"Fixed", w>>
SizeStack == <<"Stack">>
SizeHeap == <<"Heap">>

Section_heap(vma) ==
    [priority |-> I32Max, size |-> SizeHeap, prefix |-> FALSE, name |-> "heap",
     vma |-> vma, lma |-> None, linker_preamble |-> None]

\* a stack that takes the heap's priority
Section_stack_top(vma) ==
    [priority |-> I32Max, size |-> SizeStack, prefix |-> FALSE, name |-> "stack",
     vma |-> vma, lma |-> None, linker_preamble |-> None]

Section_stack(vma) ==
    [priority |-> I32Max - 1, size |-> SizeStack, prefix |-> FALSE, name |-> "stack",
     vma |-> vma, lma |-> None, linker_preamble |-> None]

Section_boot_config(size, name, vma) ==
    [priority |-> -1, size |-> SizeFixed(size), prefix |-> FALSE, name |-> name,
     vma |-> vma, lma |-> None, linker_preamble |-> None]

Section_vector_table(vma, lma) ==
    [priority |-> 0, size |-> SizeLinker, prefix |-> FALSE, name |-> "vector_table",
     vma |-> vma, lma |-> lma, linker_preamble |-> "LONG(__start_stack);"]

Section_text(vma, lma) ==
    [priority |-> 1, size |-> SizeLinker, prefix |-> FALSE, name |-> "text",
     vma |-> vma, lma |-> lma, linker_preamble |-> None]

Section_data(prefix, vma, lma) ==
    [priority |-> IF prefix THEN 102 ELSE 2, size |-> SizeLinker, prefix |-> prefix,
     name |-> "data", vma |-> vma, lma |-> lma, linker_preamble |-> None]

Section_rodata(prefix, vma, lma) ==
    [priority |-> IF prefix THEN 103 ELSE 3, size |-> SizeLinker, prefix |-> prefix,
     name |-> "rodata", vma |-> vma, lma |-> lma, linker_preamble |-> None]

Section_bss(prefix, vma, lma) ==
    [priority |-> IF prefix THEN 104 ELSE 4, size |-> SizeLinker, prefix |-> prefix,
     name |-> "bss", vma |-> vma, lma |-> lma, linker_preamble |-> None]

Region(name, origin, size) == [name |-> name, origin |-> origin, size |-> size]

(* ------------------------------------------------------------------ *)
(* HashMap                                                             *)
(* ------------------------------------------------------------------ *)

EmptyMap == <<>>

ContainsKey(m, key) == key \in DOMAIN m

Insert(m, key, value) ==
    [k \in DOMAIN m \cup {key} |-> IF k = key THEN value ELSE m[k]]

(* ------------------------------------------------------------------ *)
(* LinkerScript: the builder                                           *)
(* ------------------------------------------------------------------ *)

\* a region that replaces the Region declared under its name
region_overwrite(regs, name, origin, size) ==
    [regions |-> Insert(regs, name, Region(name, origin, size)),
     res |-> OkRegionID(name)]

\* LinkerScript::region, as the pair (regions afterwards, returned value)
region(regs, name, origin, size) ==
    IF ContainsKey(regs, name)
    THEN [regions |-> regs, res |-> DuplicateRegion(name)]
    ELSE [regions |-> Insert(regs, name, Region(name, origin, size)),
          res |-> OkRegionID(name)]

\* an add_section that replaces the Section declared under its name
add_section_overwrite(secs, section) ==
    [sections |-> Insert(secs, section.name, section),
     res |-> OkSectionID(section.name)]

\* LinkerScript::add_section, as the pair (sections afterwards, returned value)
add_section(secs, section) ==
    IF ContainsKey(secs, section.name)
    THEN [sections |-> secs, res |-> DuplicateSection(section.name)]
    ELSE [sections |-> Insert(secs, section.name, section),
          res |-> OkSectionID(section.name)]

(* ------------------------------------------------------------------ *)
(* Formatting of a Word                                                *)
(* ------------------------------------------------------------------ *)

RECURSIVE Digits(_, _)
\* the digits of w in the given base, most significant first
Digits(w, base) ==
    IF w < base THEN <<w>> ELSE Append(Digits(w \div base, base), w % base)

\* "{:#X}"
UpperHexAlt(w) == [prefix |-> "0x", digits |-> Digits(w, 16)]

\* "{}"
Display(w) == [prefix |-> "", digits |-> Digits(w, 10)]

(* ------------------------------------------------------------------ *)
(* generate::link: one operator per writeln!                           *)
(* ------------------------------------------------------------------ *)

\* "\t.{} :"
LineOpen(name) == [k |-> "open", name |-> name]
\* "\t{{"
LineBrace == [k |-> "brace"]
\* "\t\t. = ALIGN({});"
LineAlign(n) == [k |-> "align", n |-> Display(n)]
\* "\t\t__start_{} = .;"
LineStart(name) == [k |-> "start", name |-> name]
\* "\t\t{}" of the linker preamble
LinePreamble(text) == [k |-> "preamble", text |-> text]
\* "\t\t*(.{} .{}.*);"
LineInput(name) == [k |-> "input", name |-> name, name2 |-> name]
\* "\t\t__end_{} = .;"
LineEnd(name) == [k |-> "end", name |-> name]
\* "\t}} > {} AT> {}"
LineCloseAt(vma, lma) == [k |-> "close_at", vma |-> vma, lma |-> lma]
\* "\t}} > {}"
LineClose(vma) == [k |-> "close", vma |-> vma]
\* "\t__load_{} = LOADADDR(.{});"
LineLoad(name) == [k |-> "load", name |-> name, of |-> name]
\* "\t__{}_used = __{}_used + SIZEOF(.{});"
LineUsed(reg, name) == [k |-> "used", lhs |-> reg, rhs |-> reg, name |-> name]
\* "\t\t. = __{}_origin + __{}_used;"
LineDotUsed(reg) == [k |-> "dot_used", origin |-> reg, used |-> reg]
\* "\t\t. = __{}_origin + __{}_size;"
LineDotSize(reg) == [k |-> "dot_size", origin |-> reg, size |-> reg]
\* "\t\t. += {}"
LineAdvance(size) == [k |-> "advance", size |-> Display(size)]
\* ""
LineBlank == [k |-> "blank"]
\* the file header: static text
LineHeader == [k |-> "header"]
\* "MEMORY {{"
LineMemory == [k |-> "memory"]
\* "\t{} : ORIGIN = {:#X}, LENGTH = {:#X}"
LineRegion(r) ==
    [k |-> "region", name |-> r.name, origin |-> UpperHexAlt(r.origin),
     length |-> UpperHexAlt(r.size)]
\* "}}"
LineEndBlock == [k |-> "end_block"]
\* "SECTIONS {{"
LineSections == [k |-> "sections"]
\* "\t__{}_origin = {};"
LineSymOrigin(r) == [k |-> "sym_origin", reg |-> r.name, value |-> Display(r.origin)]
\* "\t__{}_size = {};"
LineSymSize(r) == [k |-> "sym_size", reg |-> r.name, value |-> Display(r.size)]
\* "\t__{}_used = 0;"
LineSymUsed(r) == [k |-> "sym_used", reg |-> r.name]

\* a linker-sized block that counts the section in its VMA region alone
render_linker_section_vma_only(section) ==
    <<LineOpen(section.name), LineBrace, LineAlign(AlignOfW), LineStart(section.name)>>
    \o (IF section.linker_preamble # None
        THEN <<LinePreamble(section.linker_preamble)>> ELSE <<>>)
    \o <<LineInput(section.name), LineAlign(AlignOfW), LineEnd(section.name)>>
    \o (IF section.lma # None
        THEN <<LineCloseAt(section.vma, section.lma), LineLoad(section.name),
               LineUsed(section.vma, section.name)>>
        ELSE <<LineClose(section.vma), LineUsed(section.vma, section.name)>>)
    \o <<LineBlank>>

render_linker_section(section) ==
    <<LineOpen(section.name), LineBrace, LineAlign(AlignOfW), LineStart(section.name)>>
    \o (IF section.linker_preamble # None
        THEN <<LinePreamble(section.linker_preamble)>> ELSE <<>>)
    \o <<LineInput(section.name), LineAlign(AlignOfW), LineEnd(section.name)>>
    \o (IF section.lma # None
        THEN <<LineCloseAt(section.vma, section.lma), LineLoad(section.name),
               LineUsed(section.vma, section.name), LineUsed(section.lma, section.name)>>
        ELSE <<LineClose(section.vma), LineUsed(section.vma, section.name)>>)
    \o <<LineBlank>>

\* a heap block that counts itself in its region's accumulator
render_heap_section_counted(section) ==
    <<LineOpen(section.name), LineBrace, LineDotUsed(section.vma), LineAlign(AlignOfW),
      LineStart(section.name), LineDotSize(section.vma), LineEnd(section.name),
      LineClose(section.vma), LineUsed(section.vma, section.name), LineBlank>>

render_heap_section(section) ==
    <<LineOpen(section.name), LineBrace, LineDotUsed(section.vma), LineAlign(AlignOfW),
      LineStart(section.name), LineDotSize(section.vma), LineEnd(section.name),
      LineClose(section.vma), LineBlank>>

render_stack_section(section) ==
    <<LineOpen(section.name), LineBrace, LineDotUsed(section.vma), LineAlign(AlignOfW),
      LineEnd(section.name), LineDotSize(section.vma), LineStart(section.name),
      LineClose(section.vma), LineBlank>>

render_fixed_section(section, size) ==
    <<LineOpen(section.name), LineBrace, LineStart(section.name), LineAdvance(size),
      LineEnd(section.name), LineClose(section.vma),
      LineUsed(section.vma, section.name), LineBlank>>

\* the match of render on section.size
render_section(section) ==
    CASE section.size[1] = "Linker" -> render_linker_section(section)
      [] section.size[1] = "Heap" -> render_heap_section(section)
      [] section.size[1] = "Stack" -> render_stack_section(section)
      [] section.size[1] = "Fixed" -> render_fixed_section(section, section.size[2])

RECURSIVE Perms(_)
\* the sequences that enumerate the set S once
Perms(S) ==
    IF S = {} THEN {<<>>}
    ELSE UNION {{<<x>> \o p : p \in Perms(S \ {x})} : x \in S}

\* HashMap::values of regions: the Regions in any order
RegionValues(regs) == {[i \in 1..Len(p) |-> regs[p[i]]] : p \in Perms(DOMAIN regs)}

RECURSIVE SectionKeyOrders(_, _)
\* Iteration orders of the keys: the sections of greatest priority first, those
\* of equal priority in every order.
SectionKeyOrders(secs, keys) ==
    IF keys = {} THEN {<<>>}
    ELSE LET top == {n \in keys : \A o \in keys : secs[o].priority <= secs[n].priority}
         IN {g \o r : g \in Perms(top), r \in SectionKeyOrders(secs, keys \ top)}

\* HashMap::values of sections. sort_by is stable, so what render makes of an
\* iteration order depends only on the relative order of the sections of equal
\* priority: one iteration order is listed for each such relative order.
SectionValues(secs) ==
    {[i \in 1..Len(p) |-> secs[p[i]]] : p \in SectionKeyOrders(secs, DOMAIN secs)}

RECURSIVE InsertSorted(_, _)
\* x placed behind the last element of the sorted s that is not greater
InsertSorted(s, x) ==
    IF s = <<>> THEN <<x>>
    ELSE IF s[Len(s)].priority <= x.priority THEN Append(s, x)
    ELSE Append(InsertSorted(SubSeq(s, 1, Len(s) - 1), x), s[Len(s)])

\* the sections as the map yields them, unsorted
unsorted(s) == s

RECURSIVE sort_by_priority(_)
\* sorted_sections.sort_by(|a, b| a.priority.partial_cmp(&b.priority)): stable
sort_by_priority(s) ==
    IF s = <<>> THEN <<>>
    ELSE InsertSorted(sort_by_priority(SubSeq(s, 1, Len(s) - 1)), s[Len(s)])

RECURSIVE Flatten(_)
Flatten(ss) == IF ss = <<>> THEN <<>> ELSE Head(ss) \o Flatten(Tail(ss))

\* the MEMORY block
render_memory(rvals) ==
    <<LineMemory>> \o [i \in 1..Len(rvals) |-> LineRegion(rvals[i])] \o <<LineEndBlock>>

\* the tracking symbols of the regions
render_symbols(rvals) ==
    Flatten([i \in 1..Len(rvals) |->
        <<LineSymOrigin(rvals[i]), LineSymSize(rvals[i]), LineSymUsed(rvals[i])>>])

\* the section blocks
render_blocks(svals) ==
    LET sorted_sections == sort_by_priority(svals)
    IN Flatten([i \in 1..Len(sorted_sections) |-> render_section(sorted_sections[i])])

\* generate::link::render: rvals is what the loops over regions.values() yield
\* (the map is not changed between them), svals what sections.values() yields
render(rvals, svals) ==
    <<LineHeader>> \o render_memory(rvals) \o <<LineSections>>
    \o render_symbols(rvals) \o render_blocks(svals) \o <<LineEndBlock>>

(* ------------------------------------------------------------------ *)
(* LinkerScript: the section constructors, write and generate          *)
(* ------------------------------------------------------------------ *)

stack(secs, vma) == add_section(secs, Section_stack(vma))
heap(secs, vma) == add_section(secs, Section_heap(vma))
boot_config(secs, size, name, vma) == add_section(secs, Section_boot_config(size, name, vma))
vector_table(secs, vma, lma) == add_section(secs, Section_vector_table(vma, lma))
text(secs, vma, lma) == add_section(secs, Section_text(vma, lma))
data(secs, prefix, vma, lma) == add_section(secs, Section_data(prefix, vma, lma))
rodata(secs, prefix, vma, lma) == add_section(secs, Section_rodata(prefix, vma, lma))
bss(secs, prefix, vma, lma) == add_section(secs, Section_bss(prefix, vma, lma))

\* a loop that goes on after a missing name: the last name of REQ_SEC_NAMES
\* from index i on that sections does not contain
LastMissingFrom(secs, i) ==
    LET absent == {j \in i..Len(REQ_SEC_NAMES) : ~ContainsKey(secs, REQ_SEC_NAMES[j])}
    IN IF absent = {} THEN None
       ELSE REQ_SEC_NAMES[CHOOSE j \in absent : \A m \in absent : m <= j]

RECURSIVE FirstMissingFrom(_, _)
\* the loop of write over REQ_SEC_NAMES from index i on: the first name that
\* sections does not contain, None when there is none
FirstMissingFrom(secs, i) ==
    IF i > Len(REQ_SEC_NAMES) THEN None
    ELSE IF ~ContainsKey(secs, REQ_SEC_NAMES[i]) THEN REQ_SEC_NAMES[i]
    ELSE FirstMissingFrom(secs, i + 1)

\* A sink takes the lines written to it; a failing one takes FailAfter of them
\* and fails the next write. The pair (contents afterwards, returned value).
write_lines(contents, lines, fails) ==
    IF fails /\ Len(lines) > FailAfter
    THEN [data |-> contents \o SubSeq(lines, 1, FailAfter), res |-> IoError]
    ELSE [data |-> contents \o lines, res |-> OkUnit]

\* a write that looks every section's vma and lma up in the regions map
write_checked(regs, secs, contents, fails, rvals, svals) ==
    LET missing == FirstMissingFrom(secs, 1)
        no_vma == {n \in DOMAIN secs : ~ContainsKey(regs, secs[n].vma)}
        no_lma == {n \in DOMAIN secs :
                      secs[n].lma # None /\ ~ContainsKey(regs, secs[n].lma)}
    IN IF missing # None
       THEN [data |-> contents, res |-> MissingSection(missing)]
       ELSE IF no_vma # {}
       THEN [data |-> contents, res |-> UnknownVMA(secs[CHOOSE n \in no_vma : TRUE].vma)]
       ELSE IF no_lma # {}
       THEN [data |-> contents, res |-> UnknownLMA(secs[CHOOSE n \in no_lma : TRUE].lma)]
       ELSE write_lines(contents, render(rvals, svals), fails)

\* LinkerScript::write into a sink holding contents, as the pair
\* (contents afterwards, returned value)
write(regs, secs, contents, fails, rvals, svals) ==
    LET missing == FirstMissingFrom(secs, 1)
    IN IF missing # None
       THEN [data |-> contents, res |-> MissingSection(missing)]
       ELSE write_lines(contents, render(rvals, svals), fails)

\* File::create("link.x"): the file exists afterwards and is empty
File_create(file) == [exists |-> TRUE, data |-> <<>>]

\* LinkerScript::generate, as the pair (link.x afterwards, returned value)
generate(regs, secs, file, create_fails, fails, rvals, svals) ==
    IF create_fails THEN [file |-> file, res |-> IoError]
    ELSE LET created == File_create(file)
             w == write(regs, secs, created.data, fails, rvals, svals)
         IN [file |-> [exists |-> TRUE, data |-> w.data], res |-> w.res]

(* ------------------------------------------------------------------ *)
(* The callers                                                         *)
(* ------------------------------------------------------------------ *)

\* what tests::generate_ok and bin/render.rs declare
ScenarioRegions ==
    [n \in {FLASH, RAM} |->
        IF n = FLASH THEN Region(FLASH, 0, 512) ELSE Region(RAM, 536870912, 128)]

ScenarioSections ==
    [n \in {"stack", "heap", "fcb", "vector_table", "text", "data", "rodata", "bss"} |->
        CASE n = "stack" -> Section_stack(RAM)
          [] n = "heap" -> Section_heap(RAM)
          [] n = "fcb" -> Section_boot_config(512, "fcb", FLASH)
          [] n = "vector_table" -> Section_vector_table(FLASH, RAM)
          [] n = "text" -> Section_text(FLASH, RAM)
          [] n = "data" -> Section_data(FALSE, FLASH, RAM)
          [] n = "rodata" -> Section_rodata(FALSE, FLASH, None)
          [] n = "bss" -> Section_bss(FALSE, FLASH, RAM)]

\* the number of the fields fs in which the declaration m holds under name n
\* differs from the scenario's
Differences(m, scenario, n, fs) ==
    IF n \notin DOMAIN m THEN 0
    ELSE IF m[n] = scenario[n] THEN 0
    ELSE Cardinality({f \in fs : m[n][f] # scenario[n][f]})

RegionVaried(regs, n) == Differences(regs, ScenarioRegions, n, {"origin", "size"})

SectionVaried(secs, n) ==
    Differences(secs, ScenarioSections, n, {"size", "prefix", "vma", "lma"})

\* the number of arguments of the declarations made that differ from the
\* scenario's: origin and size of a region; sizing, prefix, vma and lma of a
\* section
Varied(regs, secs) ==
    RegionVaried(regs, FLASH) + RegionVaried(regs, RAM)
    + SectionVaried(secs, "stack") + SectionVaried(secs, "heap")
    + SectionVaried(secs, "fcb") + SectionVaried(secs, "vector_table")
    + SectionVaried(secs, "text") + SectionVaried(secs, "data")
    + SectionVaried(secs, "rodata") + SectionVaried(secs, "bss")

\* link.x holds the script of an earlier build when the program starts
PreviousScript == <<[k |-> "previous"]>>

Init ==
    /\ regions = EmptyMap
    /\ sections = EmptyMap
    /\ region_calls = <<>>
    /\ out = <<>>
    /\ link_x = [exists |-> TRUE, data |-> PreviousScript]
    /\ call = [op |-> "new", arg |-> None]
    /\ result = NoResult
    /\ pc = "building"

\* ls.region(name, origin, size)
CallRegion(name, origin, size) ==
    /\ pc = "building"
    /\ pc' = "returned"
    /\ LET r == region(regions, name, origin, size)
       IN /\ regions' = r.regions
          /\ regions' # regions => Varied(regions', sections) <= MaxVaried
          /\ region_calls' = IF r.res.tag = "OkRegionID"
                             THEN Append(region_calls, name) ELSE region_calls
          /\ result' = r.res
    /\ call' = [op |-> "region", arg |-> name]
    /\ UNCHANGED <<sections, out, link_x>>

\* the section constructor op of ls, called for a section name, has returned r
Declared(op, name, r) ==
    /\ pc = "building"
    /\ pc' = "returned"
    /\ call' = [op |-> op, arg |-> name]
    /\ sections' = r.sections
    /\ sections' # sections => Varied(regions, sections') <= MaxVaried
    /\ result' = r.res
    /\ UNCHANGED <<regions, region_calls, out, link_x>>

CallStack(vma) == Declared("stack", "stack", stack(sections, vma))
CallHeap(vma) == Declared("heap", "heap", heap(sections, vma))
CallBootConfig(size, name, vma) == Declared("boot_config", name, boot_config(sections, size, name, vma))
CallVectorTable(vma, lma) == Declared("vector_table", "vector_table", vector_table(sections, vma, lma))
CallText(vma, lma) == Declared("text", "text", text(sections, vma, lma))
CallData(prefix, vma, lma) == Declared("data", "data", data(sections, prefix, vma, lma))
CallRodata(prefix, vma, lma) == Declared("rodata", "rodata", rodata(sections, prefix, vma, lma))
CallBss(prefix, vma, lma) == Declared("bss", "bss", bss(sections, prefix, vma, lma))

\* ls.write(&mut out): self is consumed
CallWrite(fails, rvals, svals) ==
    /\ pc = "building"
    /\ pc' = "done"
    /\ LET w == write(regions, sections, out, fails, rvals, svals)
       IN /\ out' = w.data
          /\ result' = w.res
    /\ call' = [op |-> "write", arg |-> IF fails THEN "sink_fails" ELSE "sink_ok"]
    /\ UNCHANGED <<regions, sections, region_calls, link_x>>

\* ls.generate(): self is consumed
CallGenerate(create_fails, fails, rvals, svals) ==
    /\ pc = "building"
    /\ pc' = "done"
    /\ LET g == generate(regions, sections, link_x, create_fails, fails, rvals, svals)
       IN /\ link_x' = g.file
          /\ result' = g.res
    /\ call' = [op |-> "generate",
                arg |-> IF create_fails THEN "create_fails"
                        ELSE IF fails THEN "sink_fails" ELSE "sink_ok"]
    /\ UNCHANGED <<regions, sections, region_calls, out>>

DoRegion == \E name \in RegionNames, origin \in Origins, size \in Sizes :
    CallRegion(name, origin, size)

DoStack == \E vma \in RegionIDs : CallStack(vma)

DoHeap == \E vma \in RegionIDs : CallHeap(vma)

DoBootConfig == \E size \in BootSizes, name \in BootNames, vma \in RegionIDs :
    CallBootConfig(size, name, vma)

DoVectorTable == \E vma \in RegionIDs, lma \in OptRegionIDs : CallVectorTable(vma, lma)

DoText == \E vma \in RegionIDs, lma \in OptRegionIDs : CallText(vma, lma)

DoData == \E prefix \in BOOLEAN, vma \in RegionIDs, lma \in OptRegionIDs :
    CallData(prefix, vma, lma)

DoRodata == \E prefix \in BOOLEAN, vma \in RegionIDs, lma \in OptRegionIDs :
    CallRodata(prefix, vma, lma)

DoBss == \E prefix \in BOOLEAN, vma \in RegionIDs, lma \in OptRegionIDs :
    CallBss(prefix, vma, lma)

\* the caller takes the value a builder call returned and goes on
Resume ==
    /\ pc = "returned"
    /\ pc' = "building"
    /\ result' = NoResult
    /\ call' = [op |-> "new", arg |-> None]
    /\ UNCHANGED <<regions, sections, region_calls, out, link_x>>

DoWrite ==
    \E fails \in BOOLEAN, rvals \in RegionValues(regions),
       svals \in SectionValues(sections) :
        CallWrite(fails, rvals, svals)

DoGenerate ==
    \E create_fails \in BOOLEAN, fails \in BOOLEAN, rvals \in RegionValues(regions),
       svals \in SectionValues(sections) :
        CallGenerate(create_fails, fails, rvals, svals)

Next ==
    \/ DoRegion
    \/ DoStack
    \/ DoHeap
    \/ DoBootConfig
    \/ DoVectorTable
    \/ DoText
    \/ DoData
    \/ DoRodata
    \/ DoBss
    \/ Resume
    \/ DoWrite
    \/ DoGenerate

Spec == Init /\ [][Next]_vars

(* ------------------------------------------------------------------ *)
(* Reading a rendered script                                           *)
(* ------------------------------------------------------------------ *)

\* the sink the finished call wrote to: out after write, link.x after generate
Script == IF out # <<>> THEN out ELSE link_x.data

\* write or generate has returned Ok: Script is a whole rendered script
Rendered == pc = "done" /\ result = OkUnit

\* the names of the section blocks of text t, in the order of the text
RECURSIVE BlockNames(_)
BlockNames(t) ==
    IF t = <<>> THEN <<>>
    ELSE IF Head(t).k = "open" THEN <<Head(t).name>> \o BlockNames(Tail(t))
    ELSE BlockNames(Tail(t))

\* the index of the line that opens the block of section name (0: no block)
OpenLine(t, name) ==
    IF \E i \in 1..Len(t) : t[i].k = "open" /\ t[i].name = name
    THEN CHOOSE i \in 1..Len(t) : t[i].k = "open" /\ t[i].name = name
    ELSE 0

\* the index of the blank line that ends the block opened at line i
BlockEnd(t, i) == CHOOSE j \in i..Len(t) :
    /\ t[j].k = "blank"
    /\ \A m \in i..(j - 1) : t[m].k # "blank"

\* the lines of the block of section name
Block(t, name) == SubSeq(t, OpenLine(t, name), BlockEnd(t, OpenLine(t, name)))

IsUsed(line) == line.k = "used"

AllRequired(secs) == \A i \in 1..Len(REQ_SEC_NAMES) : REQ_SEC_NAMES[i] \in DOMAIN secs

\* the first name of REQ_SEC_NAMES that secs lacks
FirstAbsent(secs) ==
    REQ_SEC_NAMES[CHOOSE i \in 1..Len(REQ_SEC_NAMES) :
        /\ REQ_SEC_NAMES[i] \notin DOMAIN secs
        /\ \A j \in 1..(i - 1) : REQ_SEC_NAMES[j] \in DOMAIN secs]

SectionOps ==
    {"stack", "heap", "boot_config", "vector_table", "text", "data", "rodata", "bss"}

(* ------------------------------------------------------------------ *)
(* C1                                                                  *)
(* ------------------------------------------------------------------ *)

\* C1: write and generate on a sink that does not fail return Ok exactly when
\* the sections map holds all six required names, and otherwise
\* MissingSection(n) for the first n of stack, vector_table, text, data,
\* rodata, bss that it lacks; heap and boot-config sections play no part.
C1_ValidationResult ==
    (pc = "done" /\ call.arg = "sink_ok")
    => result = IF AllRequired(sections) THEN OkUnit
                ELSE MissingSection(FirstAbsent(sections))

\* write has reported rodata, the first missing name, on a layout that lacks
\* bss and heap too
C1_Witness ==
    /\ pc = "done"
    /\ call = [op |-> "write", arg |-> "sink_ok"]
    /\ result = MissingSection("rodata")
    /\ {"stack", "vector_table", "text", "data"} \subseteq DOMAIN sections
    /\ DOMAIN sections \cap {"rodata", "bss", "heap", "fcb"} = {}

(* ------------------------------------------------------------------ *)
(* C2                                                                  *)
(* ------------------------------------------------------------------ *)

\* C2: region(name, origin, size) on a name the regions map holds returns
\* DuplicateRegion(name), whatever origin and size are, and changes no region
\* and no section.
C2_DuplicateRegion ==
    [][(call'.op = "region" /\ pc' = "returned" /\ call'.arg \in DOMAIN regions)
        => /\ result' = DuplicateRegion(call'.arg)
           /\ regions' = regions
           /\ sections' = sections]_vars

\* region("RAM", ..) has been refused on a layout that holds RAM
C2_Witness ==
    /\ pc = "returned"
    /\ call = [op |-> "region", arg |-> RAM]
    /\ result = DuplicateRegion(RAM)
    /\ RAM \in DOMAIN regions

(* ------------------------------------------------------------------ *)
(* C3                                                                  *)
(* ------------------------------------------------------------------ *)

\* C3: a section constructor whose section name the sections map holds returns
\* DuplicateSection(name), whatever its other arguments, and changes nothing:
\* the section declared first keeps its priority, sizing, prefix, vma and lma.
C3_DuplicateSection ==
    [][(call'.op \in SectionOps /\ pc' = "returned" /\ call'.arg \in DOMAIN sections)
        => /\ result' = DuplicateSection(call'.arg)
           /\ sections' = sections
           /\ regions' = regions]_vars

\* boot_config has been refused for the name stack, which stack() had declared
C3_Witness ==
    /\ pc = "returned"
    /\ call = [op |-> "boot_config", arg |-> "stack"]
    /\ result = DuplicateSection("stack")
    /\ sections["stack"].size = SizeStack

(* ------------------------------------------------------------------ *)
(* C4                                                                  *)
(* ------------------------------------------------------------------ *)

\* the index of name in the sequence names (0: not in it)
Pos(names, name) ==
    IF \E i \in 1..Len(names) : names[i] = name
    THEN CHOOSE i \in 1..Len(names) : names[i] = name
    ELSE 0

\* C4: in a rendered script every section has one block, the blocks are in
\* non-decreasing order of priority, and of two sections with priorities
\* p1 < p2 the block of the first comes before the block of the second.
C4_PriorityOrder ==
    Rendered =>
        LET names == BlockNames(Script)
        IN /\ Len(names) = Cardinality(DOMAIN sections)
           /\ \A i \in 1..Len(names) : \A j \in (i + 1)..Len(names) :
                sections[names[i]].priority <= sections[names[j]].priority
           /\ \A a \in DOMAIN sections : \A b \in DOMAIN sections :
                sections[a].priority < sections[b].priority
                => /\ Pos(names, a) > 0
                   /\ Pos(names, a) < Pos(names, b)

\* a script in which the prefixed data (priority 102) follows bss (priority 4)
C4_Witness ==
    /\ Rendered
    /\ sections["data"].prefix
    /\ Pos(BlockNames(Script), "bss") > 0
    /\ Pos(BlockNames(Script), "bss") < Pos(BlockNames(Script), "data")

(* ------------------------------------------------------------------ *)
(* C5                                                                  *)
(* ------------------------------------------------------------------ *)

\* what block b holds behind the line that closes its braces
AfterClose(b) ==
    LET c == CHOOSE i \in 1..Len(b) : b[i].k \in {"close", "close_at"}
    IN SubSeq(b, c + 1, Len(b))

Kinds(b) == {b[i].k : i \in 1..Len(b)}

\* C5: the block of a linker-sized section is followed by the update
\* __R_used = __R_used + SIZEOF(.name) for its VMA region R, and then, when it
\* has an LMA, for its LMA region too, with a __load_name symbol before them;
\* without an LMA there is the VMA update alone and no __load_name.
C5_AccumulatorUpdates ==
    Rendered =>
        \A n \in DOMAIN sections :
            sections[n].size = SizeLinker =>
                LET sec == sections[n]
                    after == AfterClose(Block(Script, n))
                    updates == SelectSeq(after, IsUsed)
                IN IF sec.lma # None
                   THEN /\ Len(updates) = 2
                        /\ updates[1].lhs = sec.vma /\ updates[1].rhs = sec.vma
                        /\ updates[2].lhs = sec.lma /\ updates[2].rhs = sec.lma
                        /\ updates[1].name = n /\ updates[2].name = n
                        /\ after[1].k = "load" /\ after[1].name = n /\ after[1].of = n
                        /\ Kinds(after) = {"load", "used", "blank"}
                   ELSE /\ Len(updates) = 1
                        /\ updates[1].lhs = sec.vma /\ updates[1].rhs = sec.vma
                        /\ updates[1].name = n
                        /\ Kinds(after) = {"used", "blank"}

\* a script with text loaded from RAM into FLASH and rodata without an LMA
C5_Witness ==
    /\ Rendered
    /\ sections["text"].vma = FLASH /\ sections["text"].lma = RAM
    /\ sections["rodata"].lma = None
    /\ SelectSeq(Block(Script, "text"), IsUsed)
        = <<LineUsed(FLASH, "text"), LineUsed(RAM, "text")>>
    /\ SelectSeq(Block(Script, "rodata"), IsUsed) = <<LineUsed(FLASH, "rodata")>>

(* ------------------------------------------------------------------ *)
(* C6                                                                  *)
(* ------------------------------------------------------------------ *)

\* the names on the lines of kind k of text t, in the order of the text
RECURSIVE NamesOf(_, _, _)
NamesOf(t, k, field) ==
    IF t = <<>> THEN <<>>
    ELSE IF Head(t).k = k THEN <<Head(t)[field]>> \o NamesOf(Tail(t), k, field)
    ELSE NamesOf(Tail(t), k, field)

\* C6: the MEMORY block and the tracking symbols list the regions in the order
\* in which region() declared them.
C6_DeclarationOrder ==
    Rendered =>
        /\ NamesOf(Script, "region", "name") = region_calls
        /\ NamesOf(Script, "sym_origin", "reg") = region_calls
        /\ NamesOf(Script, "sym_size", "reg") = region_calls
        /\ NamesOf(Script, "sym_used", "reg") = region_calls

(* ------------------------------------------------------------------ *)
(* C7                                                                  *)
(* ------------------------------------------------------------------ *)

\* C7 as claimed, of a stack that stack() declared: the block of stack is the
\* last section block of a rendered script.
C7_StackLast ==
    (Rendered /\ sections["stack"].size = SizeStack)
    => BlockNames(Script)[Len(BlockNames(Script))] = "stack"

\* C7, amended: behind the block of a stack-sized section there are only
\* blocks of heap-sized sections, so the stack block is the last one exactly
\* when no heap is declared; a heap-sized block is the last block of all. A
\* section named stack that is not stack-sized (boot_config declared it) is
\* rendered before vector_table.
C7_StackThenHeap ==
    Rendered =>
        LET names == BlockNames(Script)
            stack_sized == {n \in DOMAIN sections : sections[n].size = SizeStack}
            heap_sized == {n \in DOMAIN sections : sections[n].size = SizeHeap}
        IN /\ \A n \in stack_sized :
                /\ Pos(names, n) > 0
                /\ \A j \in (Pos(names, n) + 1)..Len(names) : names[j] \in heap_sized
                /\ (names[Len(names)] = n) <=> (heap_sized = {})
           /\ heap_sized # {} => names[Len(names)] \in heap_sized
           /\ sections["stack"].size # SizeStack
              => Pos(names, "stack") < Pos(names, "vector_table")

\* a script of a layout with a heap: the stack block is the last but one
C7_Witness ==
    /\ Rendered
    /\ "heap" \in DOMAIN sections
    /\ sections["stack"].size = SizeStack
    /\ LET names == BlockNames(Script)
       IN /\ names[Len(names)] = "heap"
          /\ names[Len(names) - 1] = "stack"

(* ------------------------------------------------------------------ *)
(* C8                                                                  *)
(* ------------------------------------------------------------------ *)

\* C8: when write or generate has passed validation and rendered, the layout
\* holds a stack-sized section named stack and linker-sized sections named
\* vector_table, text, data, rodata and bss.
C8_MandatoryKinds ==
    Rendered =>
        /\ AllRequired(sections)
        /\ sections["stack"].size = SizeStack
        /\ \A n \in {"vector_table", "text", "data", "rodata", "bss"} :
            sections[n].size = SizeLinker

(* ------------------------------------------------------------------ *)
(* C9                                                                  *)
(* ------------------------------------------------------------------ *)

\* C9: when write or generate returns MissingSection, the caller's writer and
\* link.x hold what they held before the call.
C9_SinkUntouched ==
    [][(pc' = "done" /\ result'.tag = "MissingSection")
        => (out' = out /\ link_x' = link_x)]_vars

(* ------------------------------------------------------------------ *)
(* C10                                                                 *)
(* ------------------------------------------------------------------ *)

\* the regions the block of section sec names
Referenced(sec) == {sec.vma} \cup (IF sec.lma = None THEN {} ELSE {sec.lma})

\* the regions that the lines of b name in a symbol __R_used, __R_origin or
\* __R_size
SymbolRegions(b) ==
    {b[i].lhs : i \in {j \in 1..Len(b) : b[j].k = "used"}}
    \cup {b[i].origin : i \in {j \in 1..Len(b) : b[j].k \in {"dot_used", "dot_size"}}}

\* the regions with a MEMORY line, and those with a tracking symbol
MemoryRegions(t) == {t[i].name : i \in {j \in 1..Len(t) : t[j].k = "region"}}
TrackedRegions(t) ==
    {t[i].reg : i \in {j \in 1..Len(t) : t[j].k \in {"sym_origin", "sym_size", "sym_used"}}}

\* C10: no call returns UnknownVMA or UnknownLMA. A section constructor called
\* for a new name returns Ok whether or not the regions map holds its vma and
\* lma; write and generate on a sound sink return Ok when the six required
\* names are present; and in the script the block of every section names the
\* symbols of its vma and lma, while only the declared regions have a MEMORY
\* line and tracking symbols.
C10_NoRegionCheck ==
    [][/\ result'.tag \notin {"UnknownVMA", "UnknownLMA"}
       /\ (call'.op \in SectionOps /\ pc' = "returned" /\ call'.arg \notin DOMAIN sections)
          => /\ result' = OkSectionID(call'.arg)
             /\ call'.arg \in DOMAIN sections'
       /\ (pc' = "done" /\ call'.arg = "sink_ok" /\ AllRequired(sections))
          => /\ result' = OkUnit
             /\ LET t == IF call'.op = "write" THEN out' ELSE link_x'.data
                IN /\ \A n \in DOMAIN sections :
                        SymbolRegions(Block(t, n)) = Referenced(sections[n])
                   /\ MemoryRegions(t) = DOMAIN regions
                   /\ TrackedRegions(t) = DOMAIN regions]_vars

\* a script of a layout without regions: the stack block places itself by
\* __RAM_origin, __RAM_used and __RAM_size, which nothing defines
C10_Witness ==
    /\ Rendered
    /\ DOMAIN regions = {}
    /\ sections["stack"].vma = RAM
    /\ \E i \in 1..Len(Script) : Script[i] = LineDotUsed(RAM)
    /\ MemoryRegions(Script) = {}
    /\ TrackedRegions(Script) = {}

(* ------------------------------------------------------------------ *)
(* C11                                                                 *)
(* ------------------------------------------------------------------ *)

\* the section name a block's opening line "\t.{} :" declares
RenderedName(line) == "." \o line.name

\* C11: data, rodata and bss are linker-sized whatever prefix is; with
\* prefix = true for VMA region R the section has priority 102, 103 or 104 and
\* its block is declared under the name .R.name, with prefix = false it has
\* priority 2, 3 or 4 and its block is declared under the name .name.
C11_PrefixedName ==
    Rendered =>
        \A n \in {"data", "rodata", "bss"} :
            LET sec == sections[n]
                tier == CASE n = "data" -> 2 [] n = "rodata" -> 3 [] n = "bss" -> 4
                declared == IF sec.prefix THEN "." \o sec.vma \o "." \o n
                            ELSE "." \o n
            IN /\ sec.size = SizeLinker
               /\ sec.priority = IF sec.prefix THEN 100 + tier ELSE tier
               /\ \E i \in 1..Len(Script) :
                    /\ Script[i].k = "open"
                    /\ RenderedName(Script[i]) = declared

(* ------------------------------------------------------------------ *)
(* C12                                                                 *)
(* ------------------------------------------------------------------ *)

\* block b places itself by an accumulator: it holds ". = __R_origin + __R_used;"
ReadsUsed(b) == \E i \in 1..Len(b) : b[i].k = "dot_used"

\* C12: in a rendered script the blocks that place themselves by an
\* accumulator are those of the stack-sized and heap-sized sections, and from
\* the opening line of such a block to the end of the script there is no
\* update __R_used = __R_used + SIZEOF(..) of any region R: the block holds
\* none and none follows it.
C12_NoUpdateAfterStackHeap ==
    Rendered =>
        \A n \in DOMAIN sections :
            /\ ReadsUsed(Block(Script, n)) <=> sections[n].size \in {SizeStack, SizeHeap}
            /\ sections[n].size \in {SizeStack, SizeHeap}
               => \A j \in OpenLine(Script, n)..Len(Script) : ~IsUsed(Script[j])

\* a script with a boot-config block, a prefixed section, a stack and a heap:
\* the last update of __RAM_used comes before the stack block, which reads it
C12_Witness ==
    /\ Rendered
    /\ {"fcb", "heap"} \subseteq DOMAIN sections
    /\ sections["stack"].size = SizeStack /\ sections["stack"].vma = RAM
    /\ \E n \in DOMAIN sections : sections[n].prefix
    /\ \E j \in 1..(OpenLine(Script, "stack") - 1) :
        /\ IsUsed(Script[j]) /\ Script[j].lhs = RAM
    /\ \E j \in 1..(OpenLine(Script, "stack") - 1) :
        /\ IsUsed(Script[j]) /\ Script[j].name = "fcb"
    /\ LineDotUsed(RAM) \in {Block(Script, "stack")[i] : i \in 1..Len(Block(Script, "stack"))}

(* ------------------------------------------------------------------ *)
(* C13                                                                 *)
(* ------------------------------------------------------------------ *)

\* The linker's evaluation of one line of the script. env maps every region
\* whose accumulator __R_used is defined to its value, held as the sum of
\* SIZEOF terms it stands for under every assignment of sizes: the bag of the
\* section names, one copy for each SIZEOF(.name) added.
EvalLine(line, env) ==
    IF line.k = "sym_used" THEN Insert(env, line.reg, EmptyBag)
    ELSE IF line.k = "used" /\ line.rhs \in DOMAIN env
    THEN Insert(env, line.lhs, env[line.rhs] (+) SetToBag({line.name}))
    ELSE env

\* the bytes consumed in region R by the sections emitted: SIZEOF of every
\* linker-sized or fixed section whose VMA or LMA is R, once
Consumed(emitted, R) ==
    SetToBag({n \in emitted :
        /\ sections[n].size[1] \in {"Linker", "Fixed"}
        /\ R \in Referenced(sections[n])})

RECURSIVE UsedIsConsumed(_, _, _)
\* the lines t evaluated from env on, with the sections of emitted already
\* emitted: behind every block each defined accumulator equals Consumed
UsedIsConsumed(t, env, emitted) ==
    IF t = <<>> THEN TRUE
    ELSE LET line == Head(t)
             env2 == EvalLine(line, env)
             emitted2 == IF line.k = "open" THEN emitted \cup {line.name} ELSE emitted
         IN /\ line.k \in {"blank", "end_block"}
               => \A R \in DOMAIN env2 : env2[R] = Consumed(emitted2, R)
            /\ UsedIsConsumed(Tail(t), env2, emitted2)

\* C13: evaluating a rendered script from top to bottom, behind every block the
\* value of __R_used is, for every assignment of sizes, the sum of SIZEOF over
\* the linker-sized and fixed sections emitted whose VMA or LMA is R, each
\* counted once; a section whose lma is its vma region included.
C13_AccumulatorIsConsumed ==
    Rendered => UsedIsConsumed(Script, EmptyMap, {})

====
